---- MODULE Spec2Model ----
(***************************************************************************)
(* Model of the two JSON endpoints of the MoodMate Flask application       *)
(* (endpoints.py): POST /api/analyze (analyze_sentiment) and               *)
(* POST /api/chat (chat).                                                  *)
(*                                                                         *)
(* Numbers: polarity and subjectivity are floats in the program; here they *)
(* are integers counting thousandths (0.3 is 300, 1.0 is 1000).            *)
(* Strings built by f-strings are the concatenation of their pieces.       *)
(***************************************************************************)
EXTENDS Integers, Sequences, FiniteSets, TLC

VARIABLES
    GEMINI_API_KEY,   \* module global, read from the environment at import
    KNOWLEDGE_BASE,   \* module global, loaded once at import
    pc,               \* "idle" | "awaiting" (requests.post outstanding) | "done"
    endpoint,         \* "none" | "analyze" | "chat": the handler that runs
    request,          \* what request.get_json() yields for the current request
    posts,            \* the requests.post calls issued by the current request
    upstream,         \* the outcome of the requests.post call, once known
    response,         \* the (body, status) pair the handler returned
    chatHistory       \* the chat page's chatHistory array (one browser tab)

vars == <<GEMINI_API_KEY, KNOWLEDGE_BASE, pc, endpoint, request, posts,
          upstream, response, chatHistory>>

----------------------------------------------------------------------------
(* Bounds of the model *)

\* longest chat history a request carries
MaxHist == 9

----------------------------------------------------------------------------
(* Values *)

\* blob.sentiment.polarity lies in [-1.0, 1.0], in thousandths
PolarityMax == 1000

Polarities == (0 - PolarityMax)..PolarityMax

\* blob.sentiment.subjectivity lies in [0.0, 1.0]; sample values, thousandths
Subjectivities == {0, 455, 1000}

\* the comparison literals of the if/elif chain, in thousandths
HappyThreshold == 300

SadThreshold == 0 - 300

NoResponse == [status |-> 0, body |-> [none |-> TRUE]]

NoUpstream == [kind |-> "none"]

----------------------------------------------------------------------------
(* POST /api/analyze *)

\* What request.get_json() can yield, by the way the handler treats it.
\*   unparseable : get_json raises (body is not JSON)
\*   falsy       : None, {}, [], "", 0, false
\*   scalar      : a non-zero number or true ('text' in data raises TypeError)
\*   container   : a non-empty array or string; has = it contains the key
\*   object      : a non-empty JSON object; has = the key is present
\* A present text is a string (kind "str", abstracted by the scores the
\* lexicon gives it; the empty string scores 0.0 / 0.0) or another JSON
\* value (kind "other").
TextValues ==
    {[kind |-> "other", empty |-> FALSE, polarity |-> 0, subjectivity |-> 0],
     [kind |-> "str", empty |-> TRUE, polarity |-> 0, subjectivity |-> 0]}
    \cup {[kind |-> "str", empty |-> FALSE, polarity |-> p, subjectivity |-> s] :
             p \in Polarities, s \in Subjectivities}

NoText == [kind |-> "absent", empty |-> FALSE, polarity |-> 0, subjectivity |-> 0]

AnalyzeBodies ==
    {[kind |-> k, has |-> FALSE, text |-> NoText] :
        k \in {"unparseable", "falsy", "scalar", "container", "object"}}
    \cup {[kind |-> "container", has |-> TRUE, text |-> NoText]}
    \cup {[kind |-> "object", has |-> TRUE, text |-> t] : t \in TextValues}

\* (variant of Bucket: the thresholds compared with >= and <=)
BucketInclusive(polarity) ==
    IF polarity >= HappyThreshold
      THEN [emoji |-> "smiling", mood |-> "Happy", color |-> "#10b981"]
    ELSE IF polarity > 0
      THEN [emoji |-> "slightly_smiling", mood |-> "Slightly Positive",
            color |-> "#84cc16"]
    ELSE IF polarity <= SadThreshold
      THEN [emoji |-> "crying", mood |-> "Sad", color |-> "#ef4444"]
    ELSE IF polarity < 0
      THEN [emoji |-> "confused", mood |-> "Slightly Negative",
            color |-> "#f97316"]
    ELSE [emoji |-> "neutral", mood |-> "Neutral", color |-> "#6b7280"]

\* the if/elif chain on polarity
Bucket(polarity) ==
    IF polarity > HappyThreshold
      THEN [emoji |-> "smiling", mood |-> "Happy", color |-> "#10b981"]
    ELSE IF polarity > 0
      THEN [emoji |-> "slightly_smiling", mood |-> "Slightly Positive",
            color |-> "#84cc16"]
    ELSE IF polarity < SadThreshold
      THEN [emoji |-> "crying", mood |-> "Sad", color |-> "#ef4444"]
    ELSE IF polarity < 0
      THEN [emoji |-> "confused", mood |-> "Slightly Negative",
            color |-> "#f97316"]
    ELSE [emoji |-> "neutral", mood |-> "Neutral", color |-> "#6b7280"]

\* round(x, 2): the multiples of 0.01 nearest to x.  A value exactly halfway
\* between two multiples goes to whichever the binary float is nearer to, so
\* both neighbours are possible results.
Round2(x) ==
    LET lo == x - (x % 10)
    IN  IF x % 10 = 0 THEN {x}
        ELSE IF x % 10 < 5 THEN {lo}
        ELSE IF x % 10 > 5 THEN {lo + 10}
        ELSE {lo, lo + 10}

\* (variant of AnalyzeOutcomes: polarity is rounded before the if/elif chain)
AnalyzeOutcomesRoundFirst(data) ==
    IF data.kind = "unparseable"
      THEN {[status |-> 500, body |-> [error |-> "BadRequest"]]}
    ELSE IF data.kind = "falsy"
      THEN {[status |-> 400, body |-> [error |-> "No text provided"]]}
    ELSE IF data.kind = "scalar"
      THEN {[status |-> 500, body |-> [error |-> "TypeError"]]}
    ELSE IF ~data.has
      THEN {[status |-> 400, body |-> [error |-> "No text provided"]]}
    ELSE IF data.kind = "container"
      THEN {[status |-> 500, body |-> [error |-> "TypeError"]]}
    ELSE IF data.text.kind # "str"
      THEN {[status |-> 500, body |-> [error |-> "TypeError"]]}
    ELSE {[status |-> 200,
           body |-> [emoji |-> Bucket(rp).emoji, mood |-> Bucket(rp).mood,
                     polarity |-> rp, subjectivity |-> rs,
                     color |-> Bucket(rp).color, status |-> "success"]] :
             <<rp, rs>> \in Round2(data.text.polarity)
                            \X Round2(data.text.subjectivity)}

\* the outcome of the handler body up to its return or raise
AnalyzeOutcomes(data) ==
    IF data.kind = "unparseable"
      THEN {[status |-> 500, body |-> [error |-> "BadRequest"]]}
    ELSE IF data.kind = "falsy"
      THEN {[status |-> 400, body |-> [error |-> "No text provided"]]}
    ELSE IF data.kind = "scalar"
      THEN {[status |-> 500, body |-> [error |-> "TypeError"]]}
    ELSE IF ~data.has
      THEN {[status |-> 400, body |-> [error |-> "No text provided"]]}
    ELSE IF data.kind = "container"
      THEN {[status |-> 500, body |-> [error |-> "TypeError"]]}
    ELSE IF data.text.kind # "str"
      THEN {[status |-> 500, body |-> [error |-> "TypeError"]]}
    ELSE LET b == Bucket(data.text.polarity)
         IN  {[status |-> 200,
               body |-> [emoji |-> b.emoji, mood |-> b.mood,
                         polarity |-> rp, subjectivity |-> rs,
                         color |-> b.color, status |-> "success"]] :
                 <<rp, rs>> \in Round2(data.text.polarity)
                                \X Round2(data.text.subjectivity)}

analyze_sentiment(data) ==
    /\ pc = "idle"
    /\ pc' = "done"
    /\ endpoint' = "analyze"
    /\ request' = data
    /\ posts' = <<>>
    /\ upstream' = NoUpstream
    /\ response' \in AnalyzeOutcomes(data)
    /\ UNCHANGED <<GEMINI_API_KEY, KNOWLEDGE_BASE, chatHistory>>

----------------------------------------------------------------------------
(* POST /api/chat: the request *)

\* chat_history[-8:]: the number of trailing turns kept
HistoryWindow == 8

\* requests.post(..., timeout=30)
PostTimeout == 30

\* the role strings clients send; the chat page sends "user" and "bot"
RolePatterns ==
    {<<"user", "bot">>, <<"bot", "user">>, <<"user">>,
     <<"assistant", "user", "user">>}

\* a 'message' that is not a JSON string (a number, say): the handler never
\* looks at its type and carries it like any other value
WrongTypeMessage == "<not a string>"

Messages == {"hello", "", WrongTypeMessage}

\* A turn of the history list: ok = it is an object with both 'role' and
\* 'content'.  The i-th turn of a history carries the content "turn i".
Turn(ok, role, i) == [ok |-> ok, role |-> role, content |-> "turn " \o ToString(i)]

\* the histories of length n: roles follow a pattern, and at most one turn
\* (at position bad, 0 for none) lacks 'role' or 'content'
HistoriesOfLen(n) ==
    {[i \in 1..n |-> Turn(i # bad, pat[((i - 1) % Len(pat)) + 1], i)] :
        pat \in RolePatterns, bad \in 0..n}

\* the 'history' member of the body:
\*   absent  : no such key, data.get gives []
\*   nonlist : null or a number, len() raises TypeError
\*   list    : a JSON array of turns
HistoryValues ==
    {[kind |-> "absent", turns |-> <<>>], [kind |-> "nonlist", turns |-> <<>>]}
    \cup {[kind |-> "list", turns |-> h] :
             h \in UNION {HistoriesOfLen(n) : n \in 0..MaxHist}}

NoHistory == [kind |-> "absent", turns |-> <<>>]

\* What request.get_json() can yield for /api/chat (kinds as for /api/analyze)
ChatBodies ==
    {[kind |-> k, has |-> FALSE, message |-> "", history |-> NoHistory] :
        k \in {"unparseable", "falsy", "scalar", "container", "object"}}
    \cup {[kind |-> "container", has |-> TRUE, message |-> "",
           history |-> NoHistory]}
    \cup {[kind |-> "object", has |-> FALSE, message |-> "", history |-> h] :
             h \in {[kind |-> "nonlist", turns |-> <<>>],
                    [kind |-> "list", turns |-> <<>>]}}
    \cup {[kind |-> "object", has |-> TRUE, message |-> m, history |-> h] :
             m \in Messages, h \in HistoryValues}

\* (variant of NoCredential: tests GEMINI_API_KEY is None)
NoCredentialNoneOnly(key) == key = "None"

\* not GEMINI_API_KEY: os.getenv gave None or the empty string
NoCredential(key) == key \in {"None", ""}

\* the f-string system_prompt, which embeds KNOWLEDGE_BASE
system_prompt(kb) == "You are MoodMate ... Knowledge Base:" \o kb \o "Guidelines ..."

PersonaTurn(kb) == [role |-> "user", text |-> system_prompt(kb)]

AckTurn == [role |-> "model", text |-> "I understand. I'm MoodMate ..."]

\* (variant of recent_history: chat_history[:8], the oldest turns)
recent_history_oldest(chat_history) ==
    IF Len(chat_history) > HistoryWindow
      THEN SubSeq(chat_history, 1, HistoryWindow)
      ELSE chat_history

\* chat_history[-8:] if len(chat_history) > 8 else chat_history
recent_history(chat_history) ==
    IF Len(chat_history) > HistoryWindow
      THEN SubSeq(chat_history, Len(chat_history) - HistoryWindow + 1,
                  Len(chat_history))
      ELSE chat_history

\* "user" if msg['role'] == "user" else "model"
MapRole(role) == IF role = "user" THEN "user" ELSE "model"

\* one pass of the for loop over recent_history
MapTurn(msg) == [role |-> MapRole(msg.role), text |-> msg.content]

\* the contents list handed to the completion API
BuildContents(kb, user_message, chat_history) ==
    LET recent == recent_history(chat_history)
    IN  <<PersonaTurn(kb), AckTurn>>
        \o [i \in 1..Len(recent) |-> MapTurn(recent[i])]
        \o <<[role |-> "user", text |-> user_message]>>

\* the json argument of requests.post
request_body(contents) ==
    [contents |-> contents,
     generationConfig |-> [temperature |-> 900, topK |-> 40, topP |-> 950,
                           maxOutputTokens |-> 2048],
     timeout |-> PostTimeout]

Err(status, text) == [status |-> status, body |-> [error |-> text]]

\* (variant of InternalError: no catch-all clause, the exception leaves the
\* handler and the framework answers with its own HTML error page)
InternalErrorEscapes(name) == [status |-> 500, body |-> [html |-> name]]

\* the catch-all 'except Exception' clause of chat()
InternalError(name) == Err(500, "Internal server error: " \o name)

\* (variant of MessageMissing: the membership test left out)
MessageMissingSkipped(data) == FALSE

\* 'message' not in data, for an object, array or string
MessageMissing(data) == ~data.has

\* What chat() does up to and including requests.post: either it returns
\* (or raises into one of its except clauses) before posting, or it posts.
\* The result is [post, response]: post is the sequence of bodies posted.
ChatBeforePost(key, kb, data) ==
    IF NoCredential(key)
      THEN [post |-> <<>>,
            response |-> Err(500, "GEMINI_API_KEY environment variable not set")]
    ELSE IF data.kind = "unparseable"
      THEN [post |-> <<>>, response |-> InternalError("BadRequest")]
    ELSE IF data.kind = "falsy"
      THEN [post |-> <<>>, response |-> Err(400, "No message provided")]
    ELSE IF data.kind = "scalar"
      THEN [post |-> <<>>, response |-> InternalError("TypeError")]
    ELSE IF MessageMissing(data)
      THEN [post |-> <<>>, response |-> Err(400, "No message provided")]
    \* user_message = data['message']
    ELSE IF data.kind = "container"
      THEN [post |-> <<>>, response |-> InternalError("TypeError")]
    ELSE IF ~data.has
      THEN [post |-> <<>>, response |-> InternalError("KeyError")]
    ELSE IF data.history.kind = "nonlist"
      THEN [post |-> <<>>, response |-> InternalError("TypeError")]
    ELSE IF \E i \in DOMAIN recent_history(data.history.turns) :
                ~recent_history(data.history.turns)[i].ok
      THEN [post |-> <<>>, response |-> InternalError("KeyError")]
    ELSE [post |-> <<request_body(BuildContents(kb, data.message,
                                                data.history.turns))>>,
          response |-> NoResponse]

chat(data) ==
    /\ pc = "idle"
    /\ LET r == ChatBeforePost(GEMINI_API_KEY, KNOWLEDGE_BASE, data)
       IN  /\ posts' = r.post
           /\ response' = r.response
           /\ pc' = IF r.post = <<>> THEN "done" ELSE "awaiting"
    /\ endpoint' = "chat"
    /\ request' = data
    /\ upstream' = NoUpstream
    /\ UNCHANGED <<GEMINI_API_KEY, KNOWLEDGE_BASE, chatHistory>>

----------------------------------------------------------------------------
(* POST /api/chat: the outcome of requests.post *)

\* The body of an upstream response, by the shape of its JSON:
\*   notjson             : response.json() raises a JSON decode error
\*   nonobject           : a JSON array, string or number
\*   error_message       : {"error": {"message": value}}
\*   error_nomessage     : {"error": {}}
\*   error_nonobject     : {"error": "..."}
\*   no_candidates       : an object with neither 'error' nor 'candidates'
\*   empty_candidates    : {"candidates": []}
\*   candidates_nonlist  : {"candidates": 5}
\*   candidate_nonobject : {"candidates": [5]}
\*   no_content          : {"candidates": [{}]}
\*   no_parts            : {"candidates": [{"content": {"role": "model"}}]}
\*   empty_parts         : {"candidates": [{"content": {"parts": []}}]}
\*   part_no_text        : {"candidates": [{"content": {"parts": [{}]}}]}
\*   text                : {"candidates": [{"content": {"parts": [{"text": value}]}}]}
\* raw is response.text.
UpstreamBody(shape, value) ==
    [shape |-> shape, value |-> value, raw |-> "{" \o shape \o ":" \o value \o "}"]

ErrorShapes ==
    {"notjson", "nonobject", "error_nomessage", "error_nonobject",
     "no_candidates"}

CandidateShapes ==
    {"empty_candidates", "candidates_nonlist", "candidate_nonobject",
     "no_content", "no_parts", "empty_parts", "part_no_text"}

UpstreamBodies ==
    {UpstreamBody(sh, "") : sh \in ErrorShapes \cup CandidateShapes}
    \cup {UpstreamBody("error_message", "boom")}
    \cup {UpstreamBody("text", v) : v \in {"Hi there", ""}}

UpstreamStatuses == {200, 429, 500}

\* (variant of error_message: the JSON body is never consulted)
error_message_raw(body) == body.raw

\* error_json.get('error', {}).get('message', error_text), with the bare
\* except that falls back to error_text
error_message(body) ==
    IF body.shape = "error_message" THEN body.value ELSE body.raw

\* the five-part condition guarding the success return
HasFirstPart(body) == body.shape \in {"part_no_text", "text"}

\* (variant of generated_text: the text is decorated before it is returned)
generated_text_decorated(body) == "MoodMate: " \o body.value

\* response_data['candidates'][0]['content']['parts'][0]['text']
generated_text(body) == body.value

\* the handler after requests.post returned a response object
AfterResponse(status_code, body) ==
    IF status_code # 200
      THEN {[status |-> 500,
             body |-> [error |-> "Gemini API Error (Status "
                                   \o ToString(status_code) \o "): "
                                   \o error_message(body),
                       status_code |-> status_code,
                       details |-> body.raw]]}
    ELSE IF body.shape = "notjson"
      \* requests raises its own JSONDecodeError (a RequestException) or,
      \* in older releases, the json module's ValueError subclass
      THEN {Err(500, "Network error: JSONDecodeError"),
            Err(500, "JSON decode error: JSONDecodeError")}
    ELSE IF body.shape = "nonobject"
      THEN {InternalError("AttributeError")}
    ELSE IF body.shape = "candidates_nonlist"
      THEN {InternalError("TypeError")}
    ELSE IF body.shape = "candidate_nonobject"
      THEN {InternalError("AttributeError")}
    ELSE IF ~HasFirstPart(body)
      THEN {[status |-> 500,
             body |-> [error |-> "No content generated by Gemini API",
                       details |-> "str(" \o body.raw \o ")"]]}
    ELSE IF body.shape = "part_no_text"
      THEN {InternalError("KeyError")}
    ELSE {[status |-> 200,
           body |-> [response |-> generated_text(body), status |-> "success"]]}

\* (variant of UpstreamResponse: a non-200 answer is retried once)
UpstreamResponseRetry(status_code, body) ==
    /\ pc = "awaiting"
    /\ IF status_code # 200 /\ Len(posts) < 2
         THEN /\ posts' = Append(posts, posts[1])
              /\ UNCHANGED <<pc, upstream, response>>
         ELSE /\ pc' = "done"
              /\ upstream' = [kind |-> "response", status_code |-> status_code,
                              body |-> body]
              /\ response' \in AfterResponse(status_code, body)
              /\ UNCHANGED posts
    /\ UNCHANGED <<GEMINI_API_KEY, KNOWLEDGE_BASE, endpoint, request,
                   chatHistory>>

\* requests.post returns a response
UpstreamResponse(status_code, body) ==
    /\ pc = "awaiting"
    /\ pc' = "done"
    /\ upstream' = [kind |-> "response", status_code |-> status_code,
                    body |-> body]
    /\ response' \in AfterResponse(status_code, body)
    /\ UNCHANGED <<GEMINI_API_KEY, KNOWLEDGE_BASE, endpoint, request, posts,
                   chatHistory>>

\* (variant of TimeoutResponse: the RequestException clause comes first and
\* catches the Timeout, which is one of its subclasses)
TimeoutResponseAsNetwork == Err(500, "Network error: Timeout")

\* the 'except requests.exceptions.Timeout' clause
TimeoutResponse == Err(504, "Request to Gemini API timed out")

\* the 'except requests.exceptions.RequestException' clause
NetworkErrorResponse == Err(500, "Network error: ConnectionError")

\* requests.post raises requests.exceptions.Timeout
UpstreamTimeout ==
    /\ pc = "awaiting"
    /\ pc' = "done"
    /\ upstream' = [kind |-> "timeout"]
    /\ response' = TimeoutResponse
    /\ UNCHANGED <<GEMINI_API_KEY, KNOWLEDGE_BASE, endpoint, request, posts,
                   chatHistory>>

\* requests.post raises another requests.exceptions.RequestException
UpstreamTransportFailure ==
    /\ pc = "awaiting"
    /\ pc' = "done"
    /\ upstream' = [kind |-> "transport"]
    /\ response' = NetworkErrorResponse
    /\ UNCHANGED <<GEMINI_API_KEY, KNOWLEDGE_BASE, endpoint, request, posts,
                   chatHistory>>

----------------------------------------------------------------------------

Init ==
    /\ GEMINI_API_KEY \in {"None", "", "key"}
    /\ KNOWLEDGE_BASE \in {"knowledge.txt", "default"}
    /\ pc = "idle"
    /\ endpoint = "none"
    /\ request = [kind |-> "none"]
    /\ posts = <<>>
    /\ upstream = NoUpstream
    /\ response = NoResponse
    /\ chatHistory = <<>>

\* The response is handed to the client and the worker takes the next
\* request; nothing of the finished request is kept.
ServeNext ==
    /\ pc = "done"
    /\ pc' = "idle"
    /\ endpoint' = "none"
    /\ request' = [kind |-> "none"]
    /\ posts' = <<>>
    /\ upstream' = NoUpstream
    /\ response' = NoResponse
    /\ UNCHANGED <<GEMINI_API_KEY, KNOWLEDGE_BASE, chatHistory>>

\* a request arrives with some body
AnalyzeRequest == pc = "idle" /\ \E data \in AnalyzeBodies : analyze_sentiment(data)

ChatRequest == pc = "idle" /\ \E data \in ChatBodies : chat(data)

Next ==
    \/ AnalyzeRequest
    \/ ChatRequest
    \/ \E st \in UpstreamStatuses, body \in UpstreamBodies :
          UpstreamResponse(st, body)
    \/ UpstreamTimeout
    \/ UpstreamTransportFailure
    \/ ServeNext

Spec == Init /\ [][Next]_vars

\* requests.post with timeout=30 always returns or raises, so a handler
\* waiting for the completion API is eventually resumed
FairSpec ==
    /\ Spec
    /\ WF_vars(\/ \E st \in UpstreamStatuses, body \in UpstreamBodies :
                     UpstreamResponse(st, body)
               \/ UpstreamTimeout
               \/ UpstreamTransportFailure)

----------------------------------------------------------------------------
(* The chat page: sendMessage and addMessage *)

\* what the user types, after trim(); the empty string is refused
ClientMessages == {"hello", "I feel sad"}

\* the text addMessage shows when fetch or response.json() fails
SorryText == "Sorry, there was an error. Please try again."

\* upstream answers considered while the page is in the loop
ClientUpstreamBodies ==
    {UpstreamBody("text", "Hi there"), UpstreamBody("text", ""),
     UpstreamBody("error_message", "boom")}

ClientUpstreamStatuses == {200, 500}

\* chatHistory.push({ role: sender, content: text })
addMessage(history, text, sender) ==
    Append(history, [ok |-> TRUE, role |-> sender, content |-> text])

\* (variant of HistorySent: the body is built before addMessage is called)
HistorySentBeforePush(history, message) == history

\* the value of chatHistory when JSON.stringify builds the body, that is
\* after addMessage(message, 'user')
HistorySent(history, message) == addMessage(history, message, "user")

\* sendMessage up to its await, and the handler's work on the request it
\* posts, up to requests.post
sendMessage(message) ==
    /\ pc = "idle"
    /\ Len(chatHistory) < MaxHist
    /\ chatHistory' = addMessage(chatHistory, message, "user")
    /\ LET data == [kind |-> "object", has |-> TRUE, message |-> message,
                    history |-> [kind |-> "list",
                                 turns |-> HistorySent(chatHistory, message)]]
           r == ChatBeforePost(GEMINI_API_KEY, KNOWLEDGE_BASE, data)
       IN  /\ request' = data
           /\ posts' = r.post
           /\ response' = r.response
           /\ pc' = IF r.post = <<>> THEN "done" ELSE "awaiting"
    /\ endpoint' = "chat"
    /\ upstream' = NoUpstream
    /\ UNCHANGED <<GEMINI_API_KEY, KNOWLEDGE_BASE>>

\* the rest of sendMessage once the answer is in:
\* if (data.response) addMessage(data.response, 'bot')
ReceiveAnswer ==
    /\ pc = "done"
    /\ endpoint = "chat"
    /\ chatHistory' =
          IF "response" \in DOMAIN response.body /\ response.body.response # ""
            THEN addMessage(chatHistory, response.body.response, "bot")
            ELSE chatHistory
    /\ pc' = "idle"
    /\ endpoint' = "none"
    /\ request' = [kind |-> "none"]
    /\ posts' = <<>>
    /\ upstream' = NoUpstream
    /\ response' = NoResponse
    /\ UNCHANGED <<GEMINI_API_KEY, KNOWLEDGE_BASE>>

\* the catch clause of sendMessage: the answer never reaches the page
FetchFails ==
    /\ pc = "done"
    /\ endpoint = "chat"
    /\ chatHistory' = addMessage(chatHistory, SorryText, "bot")
    /\ pc' = "idle"
    /\ endpoint' = "none"
    /\ request' = [kind |-> "none"]
    /\ posts' = <<>>
    /\ upstream' = NoUpstream
    /\ response' = NoResponse
    /\ UNCHANGED <<GEMINI_API_KEY, KNOWLEDGE_BASE>>

SendRequest == \E message \in ClientMessages : sendMessage(message)

ClientNext ==
    \/ SendRequest
    \/ \E st \in ClientUpstreamStatuses, body \in ClientUpstreamBodies :
          UpstreamResponse(st, body)
    \/ UpstreamTimeout
    \/ UpstreamTransportFailure
    \/ ReceiveAnswer
    \/ FetchFails

\* one chat page talking to the server
ClientSpec == Init /\ [][ClientNext]_vars

----------------------------------------------------------------------------
(* Concurrent requests.  The server runs one handler per worker thread; in  *)
(* ConcSpec each of pc, endpoint, request, posts, upstream and response     *)
(* holds one value per worker, the value it has in Spec for that worker's   *)
(* request.  A step is the part of a handler between two reads of a module  *)
(* global, so that workers interleave between those reads.                  *)

\* number of worker threads
NumWorkers == 2

Workers == 1..NumWorkers

ConcAnalyzeBodies ==
    {[kind |-> "object", has |-> FALSE, text |-> NoText],
     [kind |-> "object", has |-> TRUE,
      text |-> [kind |-> "str", empty |-> FALSE, polarity |-> 300,
                subjectivity |-> 0]]}

\* a history one turn longer than the window, as the chat page builds it
LongHistory ==
    [i \in 1..(HistoryWindow + 1) |->
        Turn(TRUE, IF i % 2 = 1 THEN "user" ELSE "bot", i)]

ConcChatBodies ==
    {[kind |-> "object", has |-> FALSE, message |-> "", history |-> NoHistory],
     [kind |-> "object", has |-> TRUE, message |-> "hello",
      history |-> NoHistory],
     [kind |-> "object", has |-> TRUE, message |-> "hello",
      history |-> [kind |-> "nonlist", turns |-> <<>>]],
     [kind |-> "object", has |-> TRUE, message |-> "I feel sad",
      history |-> [kind |-> "list", turns |-> LongHistory]]}

ConcUpstreamBodies ==
    {UpstreamBody("text", "Hi there"), UpstreamBody("error_message", "boom")}

ConcUpstreamStatuses == {200, 500}

\* the whole of analyze_sentiment, which reads no module global
ConcAnalyze(w, data) ==
    /\ pc[w] = "idle"
    /\ pc' = [pc EXCEPT ![w] = "done"]
    /\ endpoint' = [endpoint EXCEPT ![w] = "analyze"]
    /\ request' = [request EXCEPT ![w] = data]
    /\ \E r \in AnalyzeOutcomes(data) : response' = [response EXCEPT ![w] = r]
    /\ UNCHANGED <<GEMINI_API_KEY, KNOWLEDGE_BASE, posts, upstream, chatHistory>>

\* chat() from its entry to chat_history = data.get('history', []): reads
\* GEMINI_API_KEY, then the body; the history is not looked at yet
ConcChatEnter(w, data) ==
    /\ pc[w] = "idle"
    /\ LET r == ChatBeforePost(GEMINI_API_KEY, KNOWLEDGE_BASE,
                               [data EXCEPT !.history = NoHistory])
       IN  IF r.post = <<>>
             THEN /\ pc' = [pc EXCEPT ![w] = "done"]
                  /\ response' = [response EXCEPT ![w] = r.response]
             ELSE /\ pc' = [pc EXCEPT ![w] = "building"]
                  /\ UNCHANGED response
    /\ endpoint' = [endpoint EXCEPT ![w] = "chat"]
    /\ request' = [request EXCEPT ![w] = data]
    /\ UNCHANGED <<GEMINI_API_KEY, KNOWLEDGE_BASE, posts, upstream, chatHistory>>

\* (variant of ConcChatBuild: after building its prompt the handler reloads
\* the knowledge base into the module global, and the file has gone)
ConcChatBuildReload(w) ==
    /\ pc[w] = "building"
    /\ KNOWLEDGE_BASE' = "default"
    /\ LET r == ChatBeforePost(GEMINI_API_KEY, KNOWLEDGE_BASE, request[w])
       IN  IF r.post = <<>>
             THEN /\ pc' = [pc EXCEPT ![w] = "done"]
                  /\ response' = [response EXCEPT ![w] = r.response]
                  /\ UNCHANGED posts
             ELSE /\ pc' = [pc EXCEPT ![w] = "awaiting"]
                  /\ posts' = [posts EXCEPT ![w] = r.post]
                  /\ UNCHANGED response
    /\ UNCHANGED <<GEMINI_API_KEY, endpoint, request, upstream, chatHistory>>

\* chat() from contents = [] to requests.post: reads KNOWLEDGE_BASE for the
\* system prompt, walks the history, reads GEMINI_API_KEY for the header
ConcChatBuild(w) ==
    /\ pc[w] = "building"
    /\ LET r == ChatBeforePost(GEMINI_API_KEY, KNOWLEDGE_BASE, request[w])
       IN  IF r.post = <<>>
             THEN /\ pc' = [pc EXCEPT ![w] = "done"]
                  /\ response' = [response EXCEPT ![w] = r.response]
                  /\ UNCHANGED posts
             ELSE /\ pc' = [pc EXCEPT ![w] = "awaiting"]
                  /\ posts' = [posts EXCEPT ![w] = r.post]
                  /\ UNCHANGED response
    /\ UNCHANGED <<GEMINI_API_KEY, KNOWLEDGE_BASE, endpoint, request, upstream,
                   chatHistory>>

\* requests.post returns or raises in worker w; u is the outcome
ConcUpstream(w, u) ==
    /\ pc[w] = "awaiting"
    /\ pc' = [pc EXCEPT ![w] = "done"]
    /\ upstream' = [upstream EXCEPT ![w] = u]
    /\ \E r \in (IF u.kind = "timeout" THEN {TimeoutResponse}
                 ELSE IF u.kind = "transport" THEN {NetworkErrorResponse}
                 ELSE AfterResponse(u.status_code, u.body)) :
          response' = [response EXCEPT ![w] = r]
    /\ UNCHANGED <<GEMINI_API_KEY, KNOWLEDGE_BASE, endpoint, request, posts,
                   chatHistory>>

ConcUpstreamOutcomes ==
    {[kind |-> "timeout"], [kind |-> "transport"]}
    \cup {[kind |-> "response", status_code |-> st, body |-> body] :
             st \in ConcUpstreamStatuses, body \in ConcUpstreamBodies}

\* worker w hands its response over and takes the next request
ConcServeNext(w) ==
    /\ pc[w] = "done"
    /\ pc' = [pc EXCEPT ![w] = "idle"]
    /\ endpoint' = [endpoint EXCEPT ![w] = "none"]
    /\ request' = [request EXCEPT ![w] = [kind |-> "none"]]
    /\ posts' = [posts EXCEPT ![w] = <<>>]
    /\ upstream' = [upstream EXCEPT ![w] = NoUpstream]
    /\ response' = [response EXCEPT ![w] = NoResponse]
    /\ UNCHANGED <<GEMINI_API_KEY, KNOWLEDGE_BASE, chatHistory>>

ConcInit ==
    /\ GEMINI_API_KEY \in {"None", "", "key"}
    /\ KNOWLEDGE_BASE \in {"knowledge.txt", "default"}
    /\ pc = [w \in Workers |-> "idle"]
    /\ endpoint = [w \in Workers |-> "none"]
    /\ request = [w \in Workers |-> [kind |-> "none"]]
    /\ posts = [w \in Workers |-> <<>>]
    /\ upstream = [w \in Workers |-> NoUpstream]
    /\ response = [w \in Workers |-> NoResponse]
    /\ chatHistory = <<>>

ConcNext ==
    \E w \in Workers :
        \/ \E data \in ConcAnalyzeBodies : ConcAnalyze(w, data)
        \/ \E data \in ConcChatBodies : ConcChatEnter(w, data)
        \/ ConcChatBuild(w)
        \/ \E u \in ConcUpstreamOutcomes : ConcUpstream(w, u)
        \/ ConcServeNext(w)

ConcSpec == ConcInit /\ [][ConcNext]_vars

----------------------------------------------------------------------------
(* Properties *)

Min(a, b) == IF a < b THEN a ELSE b

AnalyzeDone == pc = "done" /\ endpoint = "analyze"

ChatStarted == endpoint = "chat" /\ pc \in {"awaiting", "done"}

ChatDone == pc = "done" /\ endpoint = "chat"

\* the request carries a text that is a string
HasStringText ==
    request.kind = "object" /\ request.has /\ request.text.kind = "str"

\* C1: for every polarity p in [-1, 1] the classifier answers with exactly
\* one bucket and its emoji and color: p > 0.3 Happy; 0 < p <= 0.3 Slightly
\* Positive; p < -0.3 Sad; -0.3 <= p < 0 Slightly Negative; p = 0 Neutral.
C1_BucketThresholds ==
    (AnalyzeDone /\ HasStringText) =>
        LET p == request.text.polarity
            b == response.body
        IN  /\ response.status = 200
            /\ p > 300 =>
                  b.mood = "Happy" /\ b.emoji = "smiling" /\ b.color = "#10b981"
            /\ (0 < p /\ p <= 300) =>
                  /\ b.mood = "Slightly Positive"
                  /\ b.emoji = "slightly_smiling"
                  /\ b.color = "#84cc16"
            /\ p < 0 - 300 =>
                  b.mood = "Sad" /\ b.emoji = "crying" /\ b.color = "#ef4444"
            /\ (0 - 300 <= p /\ p < 0) =>
                  /\ b.mood = "Slightly Negative"
                  /\ b.emoji = "confused"
                  /\ b.color = "#f97316"
            /\ p = 0 =>
                  b.mood = "Neutral" /\ b.emoji = "neutral" /\ b.color = "#6b7280"

\* a text of polarity exactly 0.3 was classified Slightly Positive
C1_Witness ==
    /\ AnalyzeDone /\ HasStringText
    /\ request.text.polarity = 300
    /\ response.status = 200
    /\ response.body.mood = "Slightly Positive"

\* the turns of the history the request carries (none when the key is absent)
RequestTurns == request.history.turns

\* C2: the sequence sent upstream is the persona turn (role user, embedding
\* the knowledge base), the acknowledgment turn (role model), the last
\* min(n, 8) turns of the history in their order with their content and
\* role user for 'user' and model otherwise, then the message as the final
\* user turn: 3 + min(n, 8) entries.
C2_UpstreamSequence ==
    (ChatStarted /\ posts # <<>>) =>
        LET c == posts[1].contents
            n == Len(RequestTurns)
            k == Min(n, 8)
        IN  /\ Len(c) = 3 + k
            /\ c[1].role = "user"
            /\ c[1].text = "You are MoodMate ... Knowledge Base:"
                            \o KNOWLEDGE_BASE \o "Guidelines ..."
            /\ c[2] = AckTurn
            /\ \A j \in 1..k :
                  /\ c[2 + j].text = RequestTurns[n - k + j].content
                  /\ c[2 + j].role =
                        IF RequestTurns[n - k + j].role = "user"
                          THEN "user" ELSE "model"
            /\ c[3 + k] = [role |-> "user", text |-> request.message]

\* a request with more than 8 turns of history reached the upstream call
C2_Witness ==
    /\ ChatStarted
    /\ posts # <<>>
    /\ Len(RequestTurns) > 8
    /\ Len(posts[1].contents) = 11

\* C3: with no credential configured every /api/chat request is answered
\* 500 with an error body, whatever its body, and nothing is posted.
C3_NoCredential ==
    (GEMINI_API_KEY \in {"None", ""} /\ ChatStarted) =>
        /\ pc = "done"
        /\ response.status = 500
        /\ "error" \in DOMAIN response.body
        /\ posts = <<>>

\* without a credential, a request with no message was answered 500
C3_Witness ==
    /\ GEMINI_API_KEY = ""
    /\ ChatDone
    /\ request.kind = "object" /\ ~request.has
    /\ response.status = 500
    /\ posts = <<>>

\* C4: /api/analyze answers 400 with an error body when the text is missing
\* and when the text is the empty string.
C4_EmptyOrMissingText ==
    (/\ AnalyzeDone
     /\ request.kind = "object"
     /\ (~request.has \/ (request.text.kind = "str" /\ request.text.empty))) =>
        response.status = 400 /\ "error" \in DOMAIN response.body

\* the parsed body is empty, or is an object, array or string without the key
BodyLacksMessage ==
    request.kind = "falsy"
    \/ (request.kind \in {"object", "container"} /\ ~request.has)

\* C5 as stated: every /api/chat request whose body has no message is
\* answered 400, whatever the configuration.
C5_MessageCheckedFirst ==
    (ChatDone /\ BodyLacksMessage) =>
        response.status = 400 /\ "error" \in DOMAIN response.body

\* C5 amended: the credential check comes first; with a credential
\* configured a request whose body has no message is answered 400 and
\* nothing is posted, and without one it is answered 500.
C5_MessageCheckedAfterCredential ==
    (ChatStarted /\ BodyLacksMessage) =>
        /\ pc = "done"
        /\ posts = <<>>
        /\ "error" \in DOMAIN response.body
        /\ response.status =
              IF GEMINI_API_KEY \in {"None", ""} THEN 500 ELSE 400

\* with a credential, an object without 'message' was answered 400
C5_Witness ==
    /\ GEMINI_API_KEY = "key"
    /\ ChatDone
    /\ request.kind = "object" /\ ~request.has
    /\ response.status = 400

UpstreamAnswered == ChatDone /\ upstream.kind = "response"

\* C6: an upstream status other than 200 is answered 500; the error text
\* carries the upstream status and error.message of the JSON body when it
\* has that shape, the raw body otherwise; status_code is the upstream
\* status and details the raw body.
C6_UpstreamError ==
    (UpstreamAnswered /\ upstream.status_code # 200) =>
        LET msg == IF upstream.body.shape = "error_message"
                     THEN upstream.body.value
                     ELSE upstream.body.raw
        IN  /\ response.status = 500
            /\ DOMAIN response.body = {"error", "status_code", "details"}
            /\ response.body.error =
                  "Gemini API Error (Status " \o ToString(upstream.status_code)
                      \o "): " \o msg
            /\ response.body.status_code = upstream.status_code
            /\ response.body.details = upstream.body.raw

\* upstream 500 with {"error": {"message": "boom"}} gave an error with "boom"
C6_Witness ==
    /\ UpstreamAnswered
    /\ upstream.status_code = 500
    /\ upstream.body.shape = "error_message"
    /\ response.body.error = "Gemini API Error (Status 500): boom"

\* C7: a timeout of the upstream call is answered 504 and nothing else is;
\* any other transport failure is answered 500 as a network error.
C7_TimeoutIs504 ==
    pc = "done" =>
        /\ (endpoint = "chat" /\ upstream.kind = "timeout") <=>
              response.status = 504
        /\ (endpoint = "chat" /\ upstream.kind = "transport") =>
              /\ response.status = 500
              /\ response.body = [error |-> "Network error: ConnectionError"]

\* the upstream call timed out and the answer was 504
C7_Witness ==
    ChatDone /\ upstream.kind = "timeout" /\ response.status = 504

\* C8: on upstream 200 the answer is 200 {response, status: success} with
\* response the text of the first part of the first candidate, unmodified;
\* when that shape is absent the answer is 500 with an error and no success.
C8_SuccessExtraction ==
    (UpstreamAnswered /\ upstream.status_code = 200) =>
        IF upstream.body.shape = "text"
          THEN /\ response.status = 200
               /\ response.body = [response |-> upstream.body.value,
                                   status |-> "success"]
          ELSE /\ response.status = 500
               /\ "error" \in DOMAIN response.body
               /\ "response" \notin DOMAIN response.body
               /\ "status" \notin DOMAIN response.body

\* upstream 200 with a text part was relayed verbatim
C8_Witness ==
    /\ UpstreamAnswered
    /\ upstream.status_code = 200
    /\ upstream.body.shape = "text"
    /\ upstream.body.value = "Hi there"
    /\ response.status = 200
    /\ response.body.response = "Hi there"

\* C9: an invocation of /api/chat posts at most once, whatever the upstream
\* outcome, and a request rejected for a missing credential or a missing
\* message posts nothing.
C9_SinglePost ==
    /\ Len(posts) <= 1
    /\ endpoint = "analyze" => posts = <<>>
    /\ (ChatStarted /\ (GEMINI_API_KEY \in {"None", ""} \/ BodyLacksMessage)) =>
          posts = <<>>
    /\ (ChatDone /\ upstream.kind # "none") => Len(posts) = 1

\* the upstream call failed with a non-200 status and was made exactly once
C9_Witness ==
    /\ UpstreamAnswered
    /\ upstream.status_code = 429
    /\ Len(posts) = 1

\* the shape of a finished request's answer
JsonAnswer ==
    pc = "done" =>
        /\ \/ /\ response.status = 200
              /\ "status" \in DOMAIN response.body
              /\ response.body.status = "success"
              /\ "error" \notin DOMAIN response.body
           \/ /\ response.status # 200
              /\ "error" \in DOMAIN response.body
        /\ endpoint = "analyze" => response.status \in {200, 400, 500}
        /\ endpoint = "chat" => response.status \in {200, 400, 500, 504}

\* C10: every request to /api/analyze and /api/chat ends with a JSON answer,
\* either 200 with status success and no error field or a non-200 status
\* with an error field; /api/analyze answers 200, 400 or 500 and /api/chat
\* 200, 400, 500 or 504.
C10_AlwaysJsonAnswer ==
    /\ []JsonAnswer
    /\ (pc = "awaiting") ~> (pc = "done")

\* a chat request failed inside the handler (a history that is not a list)
\* and was still answered with a JSON error
C10_Witness ==
    /\ ChatDone
    /\ GEMINI_API_KEY = "key"
    /\ request.kind = "object" /\ request.has
    /\ request.history.kind = "nonlist"
    /\ response.status = 500
    /\ "error" \in DOMAIN response.body

\* the client-supplied fields of an /api/analyze request are malformed or
\* missing: the body is not a JSON object, or it has no text, or a text that
\* is not a string
AnalyzeMalformed ==
    \/ request.kind \in {"unparseable", "scalar", "container"}
    \/ request.kind = "object" /\ (~request.has \/ request.text.kind = "other")

\* the same for /api/chat: the body is not a JSON object, or it has no
\* message, a message that is not a string, a history that is not a list, or
\* a history turn lacking role or content
ChatMalformed ==
    \/ request.kind \in {"unparseable", "scalar", "container"}
    \/ /\ request.kind = "object"
       /\ \/ ~request.has
          \/ request.message = WrongTypeMessage
          \/ request.history.kind = "nonlist"
          \/ \E i \in DOMAIN request.history.turns : ~request.history.turns[i].ok

\* C11: every request whose client-supplied fields are malformed or missing
\* is answered 400 (with a credential configured, for /api/chat), never 500.
C11_MalformedIs400 ==
    /\ (AnalyzeDone /\ AnalyzeMalformed) => response.status = 400
    /\ (ChatStarted /\ GEMINI_API_KEY = "key" /\ ChatMalformed) =>
          pc = "done" /\ response.status = 400

Abs(x) == IF x < 0 THEN 0 - x ELSE x

\* r is p rounded to 2 decimals: a multiple of 0.01 at most 0.005 away,
\* and the only nearest one unless p lies exactly halfway
IsRounded2(r, p) ==
    /\ r % 10 = 0
    /\ Abs(r - p) <= 5
    /\ p % 10 # 5 => Abs(r - p) < 5

\* the mood the thresholds give to a polarity
MoodOf(p) ==
    IF p > 300 THEN "Happy"
    ELSE IF p > 0 THEN "Slightly Positive"
    ELSE IF p = 0 THEN "Neutral"
    ELSE IF p >= 0 - 300 THEN "Slightly Negative"
    ELSE "Sad"

\* C13: the bucket is decided on the unrounded polarity and the rounding to
\* 2 decimals is applied to the reported numbers only: mood = bucket(p) and
\* reported polarity = round(p, 2).  So a p with 0 < |p| < 0.005 is reported
\* as polarity 0.0 with mood Slightly Positive or Slightly Negative, and a p
\* slightly above 0.3 as 0.3 with mood Happy.
C13_BucketBeforeRounding ==
    (AnalyzeDone /\ HasStringText) =>
        LET p == request.text.polarity
            b == response.body
        IN  /\ response.status = 200
            /\ b.mood = MoodOf(p)
            /\ IsRounded2(b.polarity, p)
            /\ IsRounded2(b.subjectivity, request.text.subjectivity)
            /\ (0 < p /\ p < 5) =>
                  b.polarity = 0 /\ b.mood = "Slightly Positive"
            /\ (0 - 5 < p /\ p < 0) =>
                  b.polarity = 0 /\ b.mood = "Slightly Negative"
            /\ (300 < p /\ p < 305) =>
                  b.polarity = 300 /\ b.mood = "Happy"

\* a polarity of 0.003 was reported as 0.0 with mood Slightly Positive, which
\* is not the mood of the reported polarity
C13_Witness ==
    /\ AnalyzeDone /\ HasStringText
    /\ request.text.polarity = 3
    /\ response.status = 200
    /\ response.body.polarity = 0
    /\ response.body.mood = "Slightly Positive"
    /\ response.body.mood # MoodOf(response.body.polarity)

\* C14: sendMessage pushes the user's message on chatHistory before it posts,
\* so the history posted with a message ends with that message as a user
\* turn, and the sequence sent upstream ends with the message twice.
C14_MessageSentTwice ==
    ChatStarted =>
        LET h == request.history.turns
            m == [role |-> "user", text |-> request.message]
        IN  /\ request.history.kind = "list"
            /\ h # <<>>
            /\ h = chatHistory
            /\ h[Len(h)].role = "user"
            /\ h[Len(h)].content = request.message
            /\ posts # <<>> =>
                  LET c == posts[1].contents
                  IN  c[Len(c)] = m /\ c[Len(c) - 1] = m

\* after earlier exchanges, a message was posted with a history longer than
\* 8 turns and went upstream twice in a row
C14_Witness ==
    /\ ChatStarted
    /\ posts # <<>>
    /\ Len(request.history.turns) > 8
    /\ \E i \in DOMAIN request.history.turns :
          request.history.turns[i].role = "bot"
    /\ LET c == posts[1].contents
       IN  /\ Len(c) = 11
           /\ c[10] = [role |-> "user", text |-> request.message]
           /\ c[11] = [role |-> "user", text |-> request.message]

\* the answers the handler gives to the request of worker w when it runs
\* with nothing else going on, given the outcome of its upstream call
AnswersAlone(w) ==
    IF endpoint[w] = "analyze" THEN AnalyzeOutcomes(request[w])
    ELSE LET r == ChatBeforePost(GEMINI_API_KEY, KNOWLEDGE_BASE, request[w])
         IN  IF r.post = <<>> THEN {r.response}
             ELSE IF upstream[w].kind = "timeout" THEN {TimeoutResponse}
             ELSE IF upstream[w].kind = "transport" THEN {NetworkErrorResponse}
             ELSE AfterResponse(upstream[w].status_code, upstream[w].body)

\* what worker w has sent upstream and answered is what it sends and answers
\* when it runs alone
RunsAsAlone(w) ==
    /\ (endpoint[w] = "analyze" /\ pc[w] # "idle") => posts[w] = <<>>
    /\ (endpoint[w] = "chat" /\ pc[w] \in {"awaiting", "done"}) =>
          posts[w] = ChatBeforePost(GEMINI_API_KEY, KNOWLEDGE_BASE,
                                    request[w]).post
    /\ pc[w] = "done" => response[w] \in AnswersAlone(w)

\* the per-request state of worker w
Local(w) ==
    <<pc[w], endpoint[w], request[w], posts[w], upstream[w], response[w]>>

\* C12: no handler step writes the knowledge base or the credential, a step
\* of one request touches nothing of another, and under every interleaving
\* each request's upstream sequence and response are those it has when it
\* runs alone.
C12_RequestsIsolated ==
    /\ [][/\ KNOWLEDGE_BASE' = KNOWLEDGE_BASE
          /\ GEMINI_API_KEY' = GEMINI_API_KEY
          /\ \A v, w \in Workers :
                (v # w /\ Local(v)' # Local(v)) => Local(w)' = Local(w)]_vars
    /\ [](\A w \in Workers : RunsAsAlone(w))

\* two chat requests overlap: one has been answered with the relayed text
\* while the other, with a different body, still waits for the upstream call
C12_Witness ==
    \E v, w \in Workers :
        /\ v # w
        /\ endpoint[v] = "chat" /\ pc[v] = "awaiting"
        /\ endpoint[w] = "chat" /\ pc[w] = "done"
        /\ response[w].status = 200
        /\ request[v] # request[w]
        /\ posts[v] # posts[w]

====
